---- MODULE Spec2Model ----
(***************************************************************************)
(* Paper-trading ledger of tradexfi: the zustand store of                  *)
(* src/store/useStore.ts (balance, positions, transactions and the four    *)
(* operations openPosition, closePosition, updateRisk, resetAccount), the  *)
(* price map kept by the websocket hook, and the risk-trigger effect of    *)
(* components/Dashboard.tsx that force-closes positions on price ticks.    *)
(*                                                                         *)
(* Numbers.  A JavaScript number is modelled as a binary floating-point    *)
(* number: a rational [n |-> numerator, d |-> denominator] in lowest terms *)
(* with d > 0 whose significand fits in MantissaBits bits, or the token    *)
(* NaN standing for every non-finite value (NaN, +-Infinity).  Each        *)
(* arithmetic operation returns the exact result rounded to the nearest    *)
(* such number, ties to even, as IEEE-754 does; the significand is shorter *)
(* than the 53 bits of a double and the exponent is unbounded (no          *)
(* overflow, no subnormal numbers).  An absent optional value is the token *)
(* undefined, an empty position slot the token null.                       *)
(*                                                                         *)
(* Not modelled: the id and timestamp fields of a transaction and the      *)
(* openedAt field of a position (random / wall-clock values that no        *)
(* operation reads back).                                                  *)
(***************************************************************************)
EXTENDS Integers, Sequences, FiniteSets, TLC

VARIABLES
    balance,        \* StoreState.balance
    positions,      \* StoreState.positions : symbol -> Position or null
    transactions,   \* StoreState.transactions, newest first
    prices,         \* useBinanceWebSocket state : symbol -> number or undefined
    rPositions,     \* positions captured by the last render of Dashboard
    rPrices,        \* priceLookup captured by the last render of Dashboard
    effectPending,  \* the risk-trigger effect of that render has not run yet
    last            \* the last call made and what it returned

vars == <<balance, positions, transactions, prices,
          rPositions, rPrices, effectPending, last>>

storeVars == <<balance, positions, transactions>>

-----------------------------------------------------------------------------
(* Bounds of the model                                                     *)

\* successful opens and closes stop once the log holds this many entries
MaxTx == 3

\* the same for the store called alone
MaxTxLedger == 1

\* the same where price messages are handled in batches
MaxTxBatch == 4

\* bits of the significand of a number
MantissaBits == 16

-----------------------------------------------------------------------------
(* JavaScript values                                                       *)

NaN == [nan |-> TRUE]

undefined == [undef |-> TRUE]

null == [null |-> TRUE]

RECURSIVE GCD(_, _)
GCD(a, b) == IF b = 0 THEN a ELSE GCD(b, a % b)

Abs(a) == IF a < 0 THEN -a ELSE a

\* the rational n/d (d # 0) in lowest terms with a positive denominator
Rat(n, d) ==
    LET g == GCD(Abs(n), Abs(d))
        sgn == IF d < 0 THEN -1 ELSE 1
    IN  [n |-> sgn * (n \div g), d |-> sgn * (d \div g)]

Num(i) == [n |-> i, d |-> 1]

\* Number.isFinite(x)
IsFinite(x) == "n" \in DOMAIN x

\* ToBoolean(x) for a number or undefined: false for undefined, NaN and 0
Truthy(x) == IsFinite(x) /\ x.n # 0

\* relational operators: every comparison with NaN or undefined is false
Lt(x, y) == IsFinite(x) /\ IsFinite(y) /\ x.n * y.d < y.n * x.d

Le(x, y) == IsFinite(x) /\ IsFinite(y) /\ x.n * y.d <= y.n * x.d

Gt(x, y) == Lt(y, x)

Ge(x, y) == Le(y, x)

\* the number of bits of a natural number
RECURSIVE Bits(_)
Bits(a) == IF a = 0 THEN 0 ELSE 1 + Bits(a \div 2)

RECURSIVE IsPow2(_)
IsPow2(d) == d = 1 \/ (d % 2 = 0 /\ IsPow2(d \div 2))

\* a / b (a >= 0, b > 0) rounded to the nearest integer, ties to even
RoundDiv(a, b) ==
    LET q == a \div b
        r == a % b
    IN  IF 2 * r < b THEN q
        ELSE IF 2 * r > b THEN q + 1
        ELSE IF q % 2 = 0 THEN q ELSE q + 1

\* the least k with a * 2^k / d >= 2^(MantissaBits - 1), for 0 < a / d
RECURSIVE ExpDown(_, _)
ExpDown(a, d) ==
    IF a \div d >= 2^(MantissaBits - 1) THEN 0 ELSE 1 + ExpDown(2 * a, d)

\* the rational x rounded to the nearest number of MantissaBits bits
Fl(x) ==
    LET a == Abs(x.n)
        sgn == IF x.n < 0 THEN -1 ELSE 1
        q == a \div x.d
    IN  IF x.d = 1 /\ a < 2^MantissaBits THEN x
        ELSE IF q >= 2^(MantissaBits - 1)
        THEN LET s == Bits(q) - MantissaBits
             IN  Rat(sgn * RoundDiv(a, x.d * 2^s) * 2^s, 1)
        ELSE IF IsPow2(x.d)
        THEN IF Bits(a) <= MantissaBits THEN x
             ELSE LET s == Bits(a) - MantissaBits
                  IN  Rat(sgn * RoundDiv(a, 2^s) * 2^s, x.d)
        ELSE LET k == ExpDown(a, x.d)
             IN  Rat(sgn * RoundDiv(a * 2^k, x.d), 2^k)

\* arithmetic: the exact result rounded; a non-finite operand gives a
\* non-finite result
Add(x, y) ==
    IF IsFinite(x) /\ IsFinite(y)
    THEN Fl(Rat(x.n * y.d + y.n * x.d, x.d * y.d)) ELSE NaN

Sub(x, y) ==
    IF IsFinite(x) /\ IsFinite(y)
    THEN Fl(Rat(x.n * y.d - y.n * x.d, x.d * y.d)) ELSE NaN

Mul(x, y) ==
    IF IsFinite(x) /\ IsFinite(y)
    THEN Fl(Rat(x.n * y.n, x.d * y.d)) ELSE NaN

Div(x, y) ==
    IF IsFinite(x) /\ IsFinite(y) /\ y.n # 0
    THEN Fl(Rat(x.n * y.d, x.d * y.n)) ELSE NaN

-----------------------------------------------------------------------------
(* Constants of the store                                                  *)

SUPPORTED_SYMBOLS == <<"BTCUSDT", "ETHUSDT", "SOLUSDT", "DOGEUSDT", "ADAUSDT">>

Symbols == {SUPPORTED_SYMBOLS[i] : i \in 1..Len(SUPPORTED_SYMBOLS)}

INITIAL_BALANCE == Num(50000)

createInitialPositions == [s \in Symbols |-> null]

\* the error messages returned by the store, under the names of the spec
InvalidMargin == "Enter a valid margin."

PriceUnavailable == "Live price unavailable."

InvalidLeverage == "Leverage must be between 1x and 50x."

PositionAlreadyOpen == "Close the existing position first."

InsufficientFunds == "Insufficient Funds"

NoOpenPosition == "No open position."

NoError == "none"

\* PositionSide and Transaction["reason"]
Sides == {"LONG", "SHORT"}

Reasons == {"MANUAL", "STOP_LOSS", "TAKE_PROFIT", "LIQUIDATION"}

\* the reason argument of closePosition left out
NoReason == "undefined"

\* the store state read by get() and written by set()
Store == [balance |-> balance, positions |-> positions,
          transactions |-> transactions]

Ok(st) == [state |-> st, success |-> TRUE, error |-> NoError]

Fail(st, msg) == [state |-> st, success |-> FALSE, error |-> msg]

-----------------------------------------------------------------------------
(* The operations of the store, as functions of the store state            *)

\* calculatePnl taking every position for a LONG
calculatePnl_ignoreSide(position, price) ==
    Mul(Sub(price, position.entryPrice), position.quantity)

calculatePnl(position, price) ==
    LET delta == IF position.side = "LONG"
                 THEN Sub(price, position.entryPrice)
                 ELSE Sub(position.entryPrice, price)
    IN  Mul(delta, position.quantity)

\* openError reading the store first: the slot and the funds are checked
\* before the arguments
openError_storeFirst(st, symbol, margin, leverage, price) ==
    IF st.positions[symbol] # null THEN PositionAlreadyOpen
    ELSE IF Gt(margin, st.balance) THEN InsufficientFunds
    ELSE IF ~IsFinite(margin) \/ Le(margin, Num(0)) THEN InvalidMargin
    ELSE IF ~IsFinite(price) \/ Le(price, Num(0)) THEN PriceUnavailable
    ELSE IF ~IsFinite(leverage) \/ Lt(leverage, Num(1)) \/ Gt(leverage, Num(50))
         THEN InvalidLeverage
    ELSE NoError

\* openError without the check of the slot
openError_noSlotCheck(st, symbol, margin, leverage, price) ==
    IF ~IsFinite(margin) \/ Le(margin, Num(0)) THEN InvalidMargin
    ELSE IF ~IsFinite(price) \/ Le(price, Num(0)) THEN PriceUnavailable
    ELSE IF ~IsFinite(leverage) \/ Lt(leverage, Num(1)) \/ Gt(leverage, Num(50))
         THEN InvalidLeverage
    ELSE IF Gt(margin, st.balance) THEN InsufficientFunds
    ELSE NoError

\* openError refusing a margin equal to the balance
openError_fundsInclusive(st, symbol, margin, leverage, price) ==
    IF ~IsFinite(margin) \/ Le(margin, Num(0)) THEN InvalidMargin
    ELSE IF ~IsFinite(price) \/ Le(price, Num(0)) THEN PriceUnavailable
    ELSE IF ~IsFinite(leverage) \/ Lt(leverage, Num(1)) \/ Gt(leverage, Num(50))
         THEN InvalidLeverage
    ELSE IF st.positions[symbol] # null THEN PositionAlreadyOpen
    ELSE IF Ge(margin, st.balance) THEN InsufficientFunds
    ELSE NoError

\* the checks of openPosition in the order of the code: the message of the
\* first check that fails, NoError when all pass
openError(st, symbol, margin, leverage, price) ==
    IF ~IsFinite(margin) \/ Le(margin, Num(0)) THEN InvalidMargin
    ELSE IF ~IsFinite(price) \/ Le(price, Num(0)) THEN PriceUnavailable
    ELSE IF ~IsFinite(leverage) \/ Lt(leverage, Num(1)) \/ Gt(leverage, Num(50))
         THEN InvalidLeverage
    ELSE IF st.positions[symbol] # null THEN PositionAlreadyOpen
    ELSE IF Gt(margin, st.balance) THEN InsufficientFunds
    ELSE NoError

\* newPosition with the two risk fields exchanged
newPosition_swapRisk(symbol, side, quantity, price, leverage, margin, stopLoss, takeProfit) ==
    [symbol |-> symbol, side |-> side, quantity |-> quantity,
     entryPrice |-> price, leverage |-> leverage, margin |-> margin,
     stopLoss |-> takeProfit, takeProfit |-> stopLoss]

\* the position stored by openPosition
newPosition(symbol, side, quantity, price, leverage, margin, stopLoss, takeProfit) ==
    [symbol |-> symbol, side |-> side, quantity |-> quantity,
     entryPrice |-> price, leverage |-> leverage, margin |-> margin,
     stopLoss |-> stopLoss, takeProfit |-> takeProfit]

\* the transaction logged by openPosition
openTransaction(symbol, side, price, quantity, leverage, margin) ==
    [type |-> IF side = "LONG" THEN "OPEN_LONG" ELSE "OPEN_SHORT",
     symbol |-> symbol, price |-> price, quantity |-> quantity,
     leverage |-> leverage, margin |-> margin]

\* openPosition reserving the margin before the funds are checked
openPosition_debitFirst(st, symbol, side, margin, leverage, price, stopLoss, takeProfit) ==
    LET error == openError(st, symbol, margin, leverage, price) IN
    IF error = InsufficientFunds
    THEN Fail([st EXCEPT !.balance = Sub(st.balance, margin)], error)
    ELSE IF error # NoError THEN Fail(st, error)
    ELSE
      LET quantity == Div(Mul(margin, leverage), price)
      IN  Ok([balance |-> Sub(st.balance, margin),
              positions |->
                  [st.positions EXCEPT ![symbol] =
                      newPosition(symbol, side, quantity, price, leverage,
                                  margin, stopLoss, takeProfit)],
              transactions |->
                  <<openTransaction(symbol, side, price, quantity, leverage,
                                    margin)>> \o st.transactions])

\* openPosition taking the notional (margin * leverage) from the balance
openPosition_debitNotional(st, symbol, side, margin, leverage, price, stopLoss, takeProfit) ==
    LET error == openError(st, symbol, margin, leverage, price) IN
    IF error # NoError THEN Fail(st, error)
    ELSE
      LET quantity == Div(Mul(margin, leverage), price)
      IN  Ok([balance |-> Sub(st.balance, Mul(margin, leverage)),
              positions |->
                  [st.positions EXCEPT ![symbol] =
                      newPosition(symbol, side, quantity, price, leverage,
                                  margin, stopLoss, takeProfit)],
              transactions |->
                  <<openTransaction(symbol, side, price, quantity, leverage,
                                    margin)>> \o st.transactions])

\* openPosition sizing the position without the leverage
openPosition_unleveredQuantity(st, symbol, side, margin, leverage, price, stopLoss, takeProfit) ==
    LET error == openError(st, symbol, margin, leverage, price) IN
    IF error # NoError THEN Fail(st, error)
    ELSE
      LET quantity == Div(margin, price)
      IN  Ok([balance |-> Sub(st.balance, margin),
              positions |->
                  [st.positions EXCEPT ![symbol] =
                      newPosition(symbol, side, quantity, price, leverage,
                                  margin, stopLoss, takeProfit)],
              transactions |->
                  <<openTransaction(symbol, side, price, quantity, leverage,
                                    margin)>> \o st.transactions])

openPosition(st, symbol, side, margin, leverage, price, stopLoss, takeProfit) ==
    LET error == openError(st, symbol, margin, leverage, price) IN
    IF error # NoError THEN Fail(st, error)
    ELSE
      LET quantity == Div(Mul(margin, leverage), price)
      IN  Ok([balance |-> Sub(st.balance, margin),
              positions |->
                  [st.positions EXCEPT ![symbol] =
                      newPosition(symbol, side, quantity, price, leverage,
                                  margin, stopLoss, takeProfit)],
              transactions |->
                  <<openTransaction(symbol, side, price, quantity, leverage,
                                    margin)>> \o st.transactions])

\* closeError looking at the slot before the price
closeError_slotFirst(st, symbol, price) ==
    IF st.positions[symbol] = null THEN NoOpenPosition
    ELSE IF ~IsFinite(price) \/ Le(price, Num(0)) THEN PriceUnavailable
    ELSE NoError

\* the checks of closePosition in the order of the code
closeError(st, symbol, price) ==
    IF ~IsFinite(price) \/ Le(price, Num(0)) THEN PriceUnavailable
    ELSE IF st.positions[symbol] = null THEN NoOpenPosition
    ELSE NoError

\* released clamped at zero: a loss is capped at the margin
released_clamped(position, pnl) ==
    IF Lt(Add(position.margin, pnl), Num(0)) THEN Num(0)
    ELSE Add(position.margin, pnl)

\* the amount closePosition returns to the balance
released(position, pnl) == Add(position.margin, pnl)

\* the transaction logged by closePosition recording the margin of the
\* position as its quantity
closeTransaction_marginAsQuantity(symbol, price, position, pnl, reason) ==
    [type |-> "CLOSE", symbol |-> symbol, price |-> price,
     quantity |-> position.margin, pnl |-> pnl, reason |-> reason]

\* the transaction logged by closePosition
closeTransaction(symbol, price, position, pnl, reason) ==
    [type |-> "CLOSE", symbol |-> symbol, price |-> price,
     quantity |-> position.quantity, pnl |-> pnl, reason |-> reason]

\* closePosition putting its transaction at the end of the log
closePosition_appendLast(st, symbol, price, reason) ==
    LET error == closeError(st, symbol, price) IN
    IF error # NoError THEN Fail(st, error)
    ELSE
      LET position == st.positions[symbol]
          pnl == calculatePnl(position, price)
      IN  Ok([balance |-> Add(st.balance, released(position, pnl)),
              positions |-> [st.positions EXCEPT ![symbol] = null],
              transactions |->
                  Append(st.transactions,
                      closeTransaction(symbol, price, position, pnl, reason))])

closePosition(st, symbol, price, reason) ==
    LET error == closeError(st, symbol, price) IN
    IF error # NoError THEN Fail(st, error)
    ELSE
      LET position == st.positions[symbol]
          pnl == calculatePnl(position, price)
      IN  Ok([balance |-> Add(st.balance, released(position, pnl)),
              positions |-> [st.positions EXCEPT ![symbol] = null],
              transactions |->
                  <<closeTransaction(symbol, price, position, pnl, reason)>>
                  \o st.transactions])

\* updateRisk keeping the old value of a field whose new value is omitted
updateRisk_keepOmitted(st, symbol, stopLoss, takeProfit) ==
    LET position == st.positions[symbol] IN
    IF position = null THEN st
    ELSE [st EXCEPT !.positions[symbol] =
              [position EXCEPT
                  !.stopLoss = IF stopLoss = undefined
                               THEN position.stopLoss ELSE stopLoss,
                  !.takeProfit = IF takeProfit = undefined
                                 THEN position.takeProfit ELSE takeProfit]]

updateRisk(st, symbol, stopLoss, takeProfit) ==
    LET position == st.positions[symbol] IN
    IF position = null THEN st
    ELSE [st EXCEPT !.positions[symbol] =
              [position EXCEPT !.stopLoss = stopLoss,
                               !.takeProfit = takeProfit]]

\* resetAccount leaving the balance as it is
resetAccount_keepBalance(st) ==
    [balance |-> st.balance,
     positions |-> createInitialPositions,
     transactions |-> <<>>]

resetAccount(st) ==
    [balance |-> INITIAL_BALANCE,
     positions |-> createInitialPositions,
     transactions |-> <<>>]

-----------------------------------------------------------------------------
(* The risk-trigger effect of Dashboard                                    *)

getLiquidationPrice(position) ==
    LET base == position.entryPrice
        move == Div(base, position.leverage)
    IN  IF position.side = "LONG" THEN Sub(base, move) ELSE Add(base, move)

\* triggerReason looking at the liquidation price first
triggerReason_liquidationFirst(position, price) ==
    LET liquidation == getLiquidationPrice(position) IN
    IF position.side = "LONG"
    THEN IF Le(price, liquidation) THEN "LIQUIDATION"
         ELSE IF Truthy(position.stopLoss) /\ Le(price, position.stopLoss)
              THEN "STOP_LOSS"
         ELSE IF Truthy(position.takeProfit) /\ Ge(price, position.takeProfit)
              THEN "TAKE_PROFIT"
         ELSE "NONE"
    ELSE IF Ge(price, liquidation) THEN "LIQUIDATION"
         ELSE IF Truthy(position.stopLoss) /\ Ge(price, position.stopLoss)
              THEN "STOP_LOSS"
         ELSE IF Truthy(position.takeProfit) /\ Le(price, position.takeProfit)
              THEN "TAKE_PROFIT"
         ELSE "NONE"

\* triggerReason with the take-profit of a SHORT looked at before its
\* stop-loss
triggerReason_shortTakeProfitFirst(position, price) ==
    LET liquidation == getLiquidationPrice(position) IN
    IF position.side = "LONG"
    THEN IF Truthy(position.stopLoss) /\ Le(price, position.stopLoss)
              THEN "STOP_LOSS"
         ELSE IF Truthy(position.takeProfit) /\ Ge(price, position.takeProfit)
              THEN "TAKE_PROFIT"
         ELSE IF Le(price, liquidation) THEN "LIQUIDATION"
         ELSE "NONE"
    ELSE IF Truthy(position.takeProfit) /\ Le(price, position.takeProfit)
              THEN "TAKE_PROFIT"
         ELSE IF Truthy(position.stopLoss) /\ Ge(price, position.stopLoss)
              THEN "STOP_LOSS"
         ELSE IF Ge(price, liquidation) THEN "LIQUIDATION"
         ELSE "NONE"

\* triggerReason with a strict comparison against the liquidation price
triggerReason_liquidationStrict(position, price) ==
    LET liquidation == getLiquidationPrice(position) IN
    IF position.side = "LONG"
    THEN IF Truthy(position.stopLoss) /\ Le(price, position.stopLoss)
              THEN "STOP_LOSS"
         ELSE IF Truthy(position.takeProfit) /\ Ge(price, position.takeProfit)
              THEN "TAKE_PROFIT"
         ELSE IF Lt(price, liquidation) THEN "LIQUIDATION"
         ELSE "NONE"
    ELSE IF Truthy(position.stopLoss) /\ Ge(price, position.stopLoss)
              THEN "STOP_LOSS"
         ELSE IF Truthy(position.takeProfit) /\ Le(price, position.takeProfit)
              THEN "TAKE_PROFIT"
         ELSE IF Gt(price, liquidation) THEN "LIQUIDATION"
         ELSE "NONE"

\* the reason the effect closes `position` with at `price`, or "NONE"
triggerReason(position, price) ==
    LET liquidation == getLiquidationPrice(position) IN
    IF position.side = "LONG"
    THEN IF Truthy(position.stopLoss) /\ Le(price, position.stopLoss)
              THEN "STOP_LOSS"
         ELSE IF Truthy(position.takeProfit) /\ Ge(price, position.takeProfit)
              THEN "TAKE_PROFIT"
         ELSE IF Le(price, liquidation) THEN "LIQUIDATION"
         ELSE "NONE"
    ELSE IF Truthy(position.stopLoss) /\ Ge(price, position.stopLoss)
              THEN "STOP_LOSS"
         ELSE IF Truthy(position.takeProfit) /\ Le(price, position.takeProfit)
              THEN "TAKE_PROFIT"
         ELSE IF Ge(price, liquidation) THEN "LIQUIDATION"
         ELSE "NONE"

\* SUPPORTED_SYMBOLS.forEach from index i on.  The decision is taken on the
\* positions and prices the render captured (rp, rpr); closePosition reads
\* the store through get(), so it acts on the store as it is now (acc.state).
\* The value returned by closePosition is dropped by the effect; acc.closes
\* keeps it for the record.
RECURSIVE riskEffectFrom(_, _, _, _)
riskEffectFrom(i, acc, rp, rpr) ==
    IF i > Len(SUPPORTED_SYMBOLS) THEN acc
    ELSE
      LET symbol == SUPPORTED_SYMBOLS[i]
          position == rp[symbol]
          price == rpr[symbol]
      IN  IF position = null \/ ~Truthy(price)
          THEN riskEffectFrom(i + 1, acc, rp, rpr)
          ELSE
            LET reason == triggerReason(position, price) IN
            IF reason = "NONE" THEN riskEffectFrom(i + 1, acc, rp, rpr)
            ELSE
              LET r == closePosition(acc.state, symbol, price, reason)
              IN  riskEffectFrom(i + 1,
                      [state |-> r.state,
                       closes |-> Append(acc.closes,
                           [symbol |-> symbol, price |-> price,
                            reason |-> reason, success |-> r.success,
                            error |-> r.error])],
                      rp, rpr)

\* riskEffect whose close calls act on the positions the render captured
\* instead of the positions of the store
riskEffect_staleStore(st, rp, rpr) ==
    LET r == riskEffectFrom(1, [state |-> [st EXCEPT !.positions = rp],
                                closes |-> <<>>], rp, rpr)
    IN  IF r.closes = <<>> THEN [state |-> st, closes |-> <<>>] ELSE r

\* riskEffect leaving the loop over the symbols at its first close call
riskEffect_stopAtFirstClose(st, rp, rpr) ==
    LET full == riskEffectFrom(1, [state |-> st, closes |-> <<>>], rp, rpr)
    IN  IF full.closes = <<>> THEN full
        ELSE riskEffectFrom(1, [state |-> st, closes |-> <<>>],
                 [s \in Symbols |->
                     IF s = full.closes[1].symbol THEN rp[s] ELSE null],
                 rpr)

\* riskEffect taking the entry price of a position for the price of a symbol
\* that has none
riskEffect_entryPriceFallback(st, rp, rpr) ==
    riskEffectFrom(1, [state |-> st, closes |-> <<>>], rp,
        [s \in Symbols |->
            IF rpr[s] = undefined /\ rp[s] # null THEN rp[s].entryPrice
            ELSE rpr[s]])

\* riskEffect closing at the level that was hit (the stop-loss, the
\* take-profit or the liquidation price) instead of the price of the tick
riskEffect_fillAtLevel(st, rp, rpr) ==
    riskEffectFrom(1, [state |-> st, closes |-> <<>>], rp,
        [s \in Symbols |->
            IF rp[s] = null \/ ~Truthy(rpr[s]) THEN rpr[s]
            ELSE LET reason == triggerReason(rp[s], rpr[s])
                 IN  IF reason = "STOP_LOSS" THEN rp[s].stopLoss
                     ELSE IF reason = "TAKE_PROFIT" THEN rp[s].takeProfit
                     ELSE IF reason = "LIQUIDATION"
                          THEN getLiquidationPrice(rp[s])
                     ELSE rpr[s]])

riskEffect(st, rp, rpr) ==
    riskEffectFrom(1, [state |-> st, closes |-> <<>>], rp, rpr)

-----------------------------------------------------------------------------
(* Initial state: the store as created, no price received yet, the first   *)
(* render done and its effects still to run                                *)

Init ==
    /\ balance = INITIAL_BALANCE
    /\ positions = createInitialPositions
    /\ transactions = <<>>
    /\ prices = [s \in Symbols |-> undefined]
    /\ rPositions = createInitialPositions
    /\ rPrices = [s \in Symbols |-> undefined]
    /\ effectPending = TRUE
    /\ last = [op |-> "init"]

-----------------------------------------------------------------------------
(* Actions                                                                 *)

SetStore(st) ==
    /\ balance' = st.balance
    /\ positions' = st.positions
    /\ transactions' = st.transactions

uiVars == <<prices, rPositions, rPrices, effectPending>>

\* a call of the store's openPosition; of a failed call `last` keeps the
\* arguments that the validation reads, of a successful one also the
\* balance it found
OpenPosition(symbol, side, margin, leverage, price, stopLoss, takeProfit) ==
    LET r == openPosition(Store, symbol, side, margin, leverage, price,
                          stopLoss, takeProfit)
    IN  /\ SetStore(r.state)
        /\ last' = IF r.success
                   THEN [op |-> "openPosition", symbol |-> symbol,
                         side |-> side, margin |-> margin,
                         leverage |-> leverage, price |-> price,
                         stopLoss |-> stopLoss, takeProfit |-> takeProfit,
                         balanceBefore |-> balance,
                         success |-> TRUE, error |-> r.error]
                   ELSE [op |-> "openPosition", symbol |-> symbol,
                         margin |-> margin, leverage |-> leverage,
                         price |-> price,
                         success |-> FALSE, error |-> r.error]
        /\ UNCHANGED uiVars

\* a call of the store's closePosition; the reason NoReason is the omitted
\* argument, replaced by the default "MANUAL"
ClosePosition(symbol, price, reasonArg) ==
    LET reason == IF reasonArg = NoReason THEN "MANUAL" ELSE reasonArg
        r == closePosition(Store, symbol, price, reason)
    IN  /\ SetStore(r.state)
        /\ last' = [op |-> "closePosition", symbol |-> symbol, price |-> price,
                    reason |-> reasonArg,
                    success |-> r.success, error |-> r.error]
        /\ UNCHANGED uiVars

\* the close button of the trade widget: closes at the rendered price, or at
\* 0 when the render had no price for the symbol
onClose(symbol) ==
    LET price == IF rPrices[symbol] = undefined THEN Num(0) ELSE rPrices[symbol]
        r == closePosition(Store, symbol, price, "MANUAL")
    IN  /\ SetStore(r.state)
        /\ last' = [op |-> "onClose", symbol |-> symbol, price |-> price,
                    reason |-> "MANUAL",
                    success |-> r.success, error |-> r.error]
        /\ UNCHANGED uiVars

\* a call of the store's updateRisk; of a call that finds no position
\* `last` keeps the symbol only
UpdateRisk(symbol, stopLoss, takeProfit) ==
    /\ SetStore(updateRisk(Store, symbol, stopLoss, takeProfit))
    /\ last' = IF positions[symbol] = null
               THEN [op |-> "updateRisk", symbol |-> symbol]
               ELSE [op |-> "updateRisk", symbol |-> symbol,
                     stopLoss |-> stopLoss, takeProfit |-> takeProfit]
    /\ UNCHANGED uiVars

ResetAccount ==
    /\ SetStore(resetAccount(Store))
    /\ last' = [op |-> "resetAccount"]
    /\ UNCHANGED uiVars

\* ws.onmessage of useBinanceWebSocket for a trade of a supported symbol.
\* A non-finite price is dropped.  Otherwise setPrices makes Dashboard
\* render again with a new priceLookup and the positions of the store, and
\* the effect is due again.  React runs the effects of the previous render
\* before it renders again, so the message is handled once no effect is
\* pending.
onmessage(symbol, price) ==
    /\ ~effectPending
    /\ IF ~IsFinite(price)
       THEN UNCHANGED uiVars
       ELSE /\ prices' = [prices EXCEPT ![symbol] = price]
            /\ rPrices' = prices'
            /\ rPositions' = positions
            /\ effectPending' = TRUE
    /\ last' = [op |-> "onmessage"]
    /\ UNCHANGED storeVars

\* Dashboard renders again after the store changed; the effects of the
\* previous render have run by then.  The record of a render that follows a
\* successful openPosition keeps the balance that call found.
Render ==
    /\ ~effectPending
    /\ positions # rPositions
    /\ rPositions' = positions
    /\ effectPending' = TRUE
    /\ last' = IF last.op = "openPosition" /\ last.success
               THEN [op |-> "render", balanceBefore |-> last.balanceBefore]
               ELSE [op |-> "render"]
    /\ UNCHANGED <<storeVars, prices, rPrices>>

\* ws.onmessage when React has not rendered yet: setPrices queues the update
\* of the price map, and the messages that arrive before the render are
\* applied together by it
onmessageQueued(symbol, price) ==
    /\ ~effectPending
    /\ IsFinite(price)
    /\ prices' = [prices EXCEPT ![symbol] = price]
    /\ last' = [op |-> "onmessage"]
    /\ UNCHANGED <<storeVars, rPositions, rPrices, effectPending>>

\* Dashboard renders with the price map of the queued messages
RenderPrices ==
    /\ ~effectPending
    /\ prices # rPrices
    /\ rPrices' = prices
    /\ rPositions' = positions
    /\ effectPending' = TRUE
    /\ last' = [op |-> "render"]
    /\ UNCHANGED <<storeVars, prices>>

\* the risk-trigger effect of the last render runs
RiskEffect ==
    LET r == riskEffect(Store, rPositions, rPrices) IN
    /\ effectPending
    /\ SetStore(r.state)
    /\ effectPending' = FALSE
    /\ last' = [op |-> "riskEffect", closes |-> r.closes]
    /\ UNCHANGED <<prices, rPositions, rPrices>>

-----------------------------------------------------------------------------
(* The whole system: user commands on the store, price ticks, renders and  *)
(* the risk-trigger effect.  The arguments of the commands and the prices  *)
(* of the ticks are drawn from the given sets.                             *)

\* A command that changes the store makes Dashboard render again within the
\* same event, after the effect still pending from the previous render has
\* run: commands and ticks are taken when the store has been rendered.
Rendered == positions = rPositions

Step(syms, sides, margins, leverages, openPrices, stops, takes, ticks, closePrices, closeReasons) ==
    \/ /\ Rendered
       /\ \/ \E symbol \in syms, side \in sides, margin \in margins,
                leverage \in leverages, price \in openPrices,
                stopLoss \in stops, takeProfit \in takes :
                OpenPosition(symbol, side, margin, leverage, price,
                             stopLoss, takeProfit)
          \/ \E symbol \in syms : onClose(symbol)
          \/ \E symbol \in syms, price \in closePrices,
                reason \in closeReasons :
                ClosePosition(symbol, price, reason)
          \/ \E symbol \in syms, stopLoss \in stops, takeProfit \in takes :
                UpdateRisk(symbol, stopLoss, takeProfit)
          \/ ResetAccount
          \/ \E symbol \in syms, price \in ticks : onmessage(symbol, price)
    \/ Render
    \/ RiskEffect

\* two symbols traded in both directions, with and without risk fields
Next ==
    /\ Step({"BTCUSDT", "ETHUSDT"}, Sides, {Num(20000)},
            {Num(10)}, {Num(100)}, {undefined, Num(95)}, {undefined},
            {NaN, Num(60), Num(100)}, {Num(60)}, {NoReason})
    /\ Len(transactions') <= MaxTx

Spec == Init /\ [][Next]_vars

\* one symbol traded LONG at 10x from 100, with every combination of a
\* stop-loss at 95 and a take-profit at 90 or 110, the price moving between
\* 80 and 110 around the liquidation price 90
NextLong ==
    /\ Step({"BTCUSDT"}, {"LONG"}, {Num(20000)}, {Num(10)}, {Num(100)},
            {undefined, Num(95)}, {undefined, Num(90), Num(110)},
            {NaN, Num(80), Num(90), Num(100), Num(110)},
            {Num(100)}, {NoReason})
    /\ Len(transactions') <= MaxTx

SpecLong == Init /\ [][NextLong]_vars

\* one symbol traded SHORT at 10x from 100, with every combination of a
\* stop-loss at 105 and a take-profit at 90 or 110, the price moving between
\* 90 and 120 around the liquidation price 110
NextShort ==
    /\ Step({"ETHUSDT"}, {"SHORT"}, {Num(20000)}, {Num(10)}, {Num(100)},
            {undefined, Num(105)}, {undefined, Num(90), Num(110)},
            {NaN, Num(90), Num(100), Num(110), Num(120)},
            {Num(100)}, {NoReason})
    /\ Len(transactions') <= MaxTx

SpecShort == Init /\ [][NextShort]_vars

\* BTCUSDT traded LONG and ETHUSDT traded SHORT at 10x from 100, with or
\* without a stop-loss at 95, the price messages of both symbols applied by
\* one render: a pass of the effect can find a trigger on both symbols
BatchTrades == {<<"BTCUSDT", "LONG">>, <<"ETHUSDT", "SHORT">>}

NextBatch ==
    /\ \/ /\ Rendered
          /\ \/ \E trade \in BatchTrades, stopLoss \in {undefined, Num(95)} :
                   OpenPosition(trade[1], trade[2], Num(20000), Num(10),
                                Num(100), stopLoss, undefined)
             \/ \E trade \in BatchTrades : onClose(trade[1])
       \/ \E trade \in BatchTrades, price \in {Num(80), Num(120)} :
             onmessageQueued(trade[1], price)
       \/ RenderPrices
       \/ Render
       \/ RiskEffect
    /\ Len(transactions') <= MaxTxBatch

SpecBatch == Init /\ [][NextBatch]_vars

\* two symbols traded LONG with margin 1000 at 10x from 50000, with or
\* without a stop-loss at 45500, the price falling to 40000, below the
\* liquidation price 45000
NextQuantity ==
    /\ Step({"BTCUSDT", "ETHUSDT"}, {"LONG"}, {Num(1000)}, {Num(10)},
            {Num(50000)}, {undefined, Num(45500)}, {undefined},
            {NaN, Num(40000), Num(50000)}, {Num(40000)}, {NoReason})
    /\ Len(transactions') <= MaxTx

SpecQuantity == Init /\ [][NextQuantity]_vars

\* one symbol traded in both directions with margin 20000 at 3x and 10x from
\* 100, the price moving to the liquidation prices of these positions
LiquidationLeverages == {Num(3), Num(10)}

LiquidationPrices ==
    {Sub(Num(100), Div(Num(100), l)) : l \in LiquidationLeverages}
    \cup {Add(Num(100), Div(Num(100), l)) : l \in LiquidationLeverages}

NextLiquidation ==
    /\ Step({"BTCUSDT"}, Sides, {Num(20000)}, LiquidationLeverages,
            {Num(100)}, {undefined}, {undefined},
            {NaN} \cup LiquidationPrices, LiquidationPrices, {NoReason})
    /\ Len(transactions') <= MaxTx

SpecLiquidation == Init /\ [][NextLiquidation]_vars

-----------------------------------------------------------------------------
(* The store alone, called with valid and invalid arguments, and the close *)
(* button pressed while no price has been received                         *)

MarginInputs == {NaN, Num(0), Num(20000), Num(50000)}

LeverageInputs == {NaN, Num(0), Num(1), Rat(3, 2), Num(51)}

PriceInputs == {NaN, Num(0), Num(100)}

ReasonInputs == {NoReason, "LIQUIDATION"}

NextLedger ==
    /\ \/ \E symbol \in {"BTCUSDT", "ETHUSDT"}, side \in Sides,
             margin \in MarginInputs, leverage \in LeverageInputs,
             price \in PriceInputs :
             OpenPosition(symbol, side, margin, leverage, price,
                          undefined, undefined)
       \/ \E symbol \in {"BTCUSDT", "ETHUSDT"}, price \in PriceInputs,
             reason \in ReasonInputs :
             ClosePosition(symbol, price, reason)
       \/ \E symbol \in {"BTCUSDT", "ETHUSDT"} : onClose(symbol)
       \/ ResetAccount
    /\ Len(transactions') <= MaxTxLedger

SpecLedger == Init /\ [][NextLedger]_vars

-----------------------------------------------------------------------------
(* The store alone, positions opened with small margins and closed at the  *)
(* price they were opened at                                               *)

RoundTripMargins == {Rat(1, 2), Num(1)}

RoundTripLeverages == {Num(1), Num(50)}

NextRoundTrip ==
    /\ \/ \E symbol \in {"BTCUSDT", "ETHUSDT"}, side \in Sides,
             margin \in RoundTripMargins, leverage \in RoundTripLeverages :
             OpenPosition(symbol, side, margin, leverage, Num(100),
                          undefined, undefined)
       \/ \E symbol \in {"BTCUSDT", "ETHUSDT"}, reason \in ReasonInputs :
             ClosePosition(symbol, Num(100), reason)
    /\ Len(transactions') <= MaxTx

SpecRoundTrip == Init /\ [][NextRoundTrip]_vars

-----------------------------------------------------------------------------
(* The store alone, positions opened at 100 with a take-profit at 110 and  *)
(* their risk fields replaced by values on either side of the entry price  *)

RiskStops == {undefined, Num(95), Num(105)}

RiskTakes == {undefined, Num(90), Num(110)}

NextRisk ==
    /\ \/ \E symbol \in {"BTCUSDT", "ETHUSDT"}, side \in Sides,
             stopLoss \in {undefined, Num(95)} :
             OpenPosition(symbol, side, Num(20000), Num(10), Num(100),
                          stopLoss, Num(110))
       \/ \E symbol \in {"BTCUSDT", "ETHUSDT"},
             stopLoss \in RiskStops, takeProfit \in RiskTakes :
             UpdateRisk(symbol, stopLoss, takeProfit)
       \/ \E symbol \in {"BTCUSDT", "ETHUSDT"} :
             ClosePosition(symbol, Num(100), NoReason)
    /\ Len(transactions') <= MaxTx

SpecRisk == Init /\ [][NextRisk]_vars

-----------------------------------------------------------------------------
(* The exported function calculatePnl called on its own                    *)

PnlEntryPrices == {Num(50), Num(100), Num(50000)}

PnlQuantities == {Num(1), Num(2), Rat(1, 4), Num(300)}

PnlPrices == {Num(50), Num(60), Num(100), Num(110), Num(50000)}

\* a call of calculatePnl on a position of the given side, entry price and
\* quantity; `last` keeps the position, the price and the value returned
CalculatePnl(side, entryPrice, quantity, price) ==
    LET position == newPosition("BTCUSDT", side, quantity, entryPrice,
                                Num(10), Num(1000), undefined, undefined)
    IN  /\ last' = [op |-> "calculatePnl", position |-> position,
                    price |-> price,
                    result |-> calculatePnl(position, price)]
        /\ UNCHANGED <<storeVars, uiVars>>

NextPnl ==
    \E side \in Sides, entryPrice \in PnlEntryPrices,
       quantity \in PnlQuantities, price \in PnlPrices :
       CalculatePnl(side, entryPrice, quantity, price)

SpecPnl == Init /\ [][NextPnl]_vars

-----------------------------------------------------------------------------
(* The whole system under fair scheduling: React runs the effects of every  *)
(* render it has committed, and the store's subscription makes Dashboard    *)
(* render again after every change of the store.  Nothing obliges the user  *)
(* to act or the feed to send a message.  Positions are opened while the    *)
(* log has room for their OPEN and their CLOSE entry, so that no close is   *)
(* held back by the bound on the log.                                       *)

LivePrices == {Num(0), Num(80), Num(100)}

NextLive ==
    \/ /\ Rendered
       /\ \/ /\ Len(transactions) + 2 <= MaxTx
             /\ \E stopLoss \in {undefined, Num(95)} :
                   OpenPosition("BTCUSDT", "LONG", Num(20000), Num(10),
                                Num(100), stopLoss, undefined)
          \/ onClose("BTCUSDT")
          \/ \E stopLoss \in {undefined, Num(95)} :
                UpdateRisk("BTCUSDT", stopLoss, undefined)
          \/ ResetAccount
          \/ \E price \in LivePrices : onmessage("BTCUSDT", price)
    \/ Render
    \/ RiskEffect

\* React runs the effect of a committed render: RiskEffect is enabled
\* exactly while effectPending holds and is the only step that clears it, so
\* its weak fairness, WF_vars(RiskEffect), is that effectPending is false
\* again and again
EffectsRun == []<>(~effectPending)

\* only the effect clears effectPending, and it can always run when pending
OnlyRiskEffectClearsPending ==
    [][(effectPending /\ ~effectPending') => last'.op = "riskEffect"]_vars

SpecLive == Init /\ [][NextLive]_vars /\ WF_vars(Render) /\ EffectsRun

-----------------------------------------------------------------------------
(* Positions opened at the current price 100 with a stop-loss below, at or  *)
(* above it: BTCUSDT LONG with margin 1, ETHUSDT in both directions with    *)
(* margin 1/2.                                                              *)

WrongSideStops == {Num(95), Num(100), Num(105)}

NextWrongSide ==
    /\ \/ /\ Rendered
          /\ \/ \E stopLoss \in {undefined, Num(100)} :
                   OpenPosition("BTCUSDT", "LONG", Num(1), Num(10), Num(100),
                                stopLoss, undefined)
             \/ \E side \in Sides, stopLoss \in WrongSideStops :
                   OpenPosition("ETHUSDT", side, Rat(1, 2), Num(10),
                                Num(100), stopLoss, undefined)
             \/ \E symbol \in {"BTCUSDT", "ETHUSDT"} : onClose(symbol)
             \/ \E symbol \in {"BTCUSDT", "ETHUSDT"} :
                   onmessage(symbol, Num(100))
       \/ Render
       \/ RiskEffect
    /\ Len(transactions') <= MaxTx

SpecWrongSide == Init /\ [][NextWrongSide]_vars

-----------------------------------------------------------------------------
(* One symbol traded LONG at 1x from 100, liquidation price 0, with or      *)
(* without a stop-loss at 95, the feed sending positive, zero and negative  *)
(* prices                                                                   *)

LeverageOnePrices == {Num(-1), Num(0), Num(80), Num(100)}

NextLeverageOne ==
    /\ Step({"BTCUSDT"}, {"LONG"}, {Num(20000)}, {Num(1)}, {Num(100)},
            {undefined, Num(95)}, {undefined}, LeverageOnePrices,
            {Num(100)}, {NoReason})
    /\ Len(transactions') <= MaxTx

SpecLeverageOne == Init /\ [][NextLeverageOne]_vars

-----------------------------------------------------------------------------
(* Properties                                                              *)

OtherSlotsUnchanged(symbol) ==
    \A s \in Symbols \ {symbol} : positions'[s] = positions[s]

\* C1: a successful openPosition lowers balance by exactly margin, fills
\* only the slot of its symbol with a position made of the inputs (side,
\* margin, leverage, stopLoss, takeProfit, entryPrice = price) and prepends
\* exactly one OPEN_LONG / OPEN_SHORT transaction with the same price,
\* quantity, leverage and margin; every other slot stays as it was.
C1_OpenEffect ==
    [][(last'.op = "openPosition" /\ last'.success) =>
        LET a == last'
            p == positions'[a.symbol]
            t == Head(transactions')
        IN  /\ balance' = Sub(balance, a.margin)
            /\ OtherSlotsUnchanged(a.symbol)
            /\ p # null
            /\ p.symbol = a.symbol
            /\ p.side = a.side
            /\ p.margin = a.margin
            /\ p.leverage = a.leverage
            /\ p.stopLoss = a.stopLoss
            /\ p.takeProfit = a.takeProfit
            /\ p.entryPrice = a.price
            /\ Len(transactions') = Len(transactions) + 1
            /\ Tail(transactions') = transactions
            /\ t.type = (IF a.side = "LONG" THEN "OPEN_LONG" ELSE "OPEN_SHORT")
            /\ t.symbol = a.symbol
            /\ t.price = a.price
            /\ t.quantity = p.quantity
            /\ t.leverage = a.leverage
            /\ t.margin = a.margin]_vars

\* a SHORT with a stop-loss and no take-profit has just been opened while
\* the other symbol holds a position
C1_Witness ==
    /\ last.op = "openPosition"
    /\ last.success
    /\ last.side = "SHORT"
    /\ last.stopLoss # undefined
    /\ last.takeProfit = undefined
    /\ \E s \in Symbols \ {last.symbol} : positions[s] # null

\* the profit or loss of the spec: (price - entryPrice) * quantity for a
\* LONG, (entryPrice - price) * quantity for a SHORT
PnL(position, price) ==
    IF position.side = "LONG"
    THEN Mul(Sub(price, position.entryPrice), position.quantity)
    ELSE Mul(Sub(position.entryPrice, price), position.quantity)

\* C2: a successful closePosition computes pnl = PnL(position, price), adds
\* exactly margin + pnl to balance (unclamped, also when negative), sets only
\* the slot of its symbol to null and prepends exactly one CLOSE transaction
\* with the quantity of the position, that pnl, the given price and the given
\* reason, MANUAL when the reason is omitted.
C2_CloseEffect ==
    [][(last'.op \in {"closePosition", "onClose"} /\ last'.success) =>
        LET a == last'
            p == positions[a.symbol]
            pnl == PnL(p, a.price)
            t == Head(transactions')
        IN  /\ p # null
            /\ balance' = Add(balance, Add(p.margin, pnl))
            /\ OtherSlotsUnchanged(a.symbol)
            /\ positions'[a.symbol] = null
            /\ Len(transactions') = Len(transactions) + 1
            /\ Tail(transactions') = transactions
            /\ t.type = "CLOSE"
            /\ t.symbol = a.symbol
            /\ t.quantity = p.quantity
            /\ t.pnl = pnl
            /\ t.price = a.price
            /\ t.reason = (IF a.reason = NoReason THEN "MANUAL"
                           ELSE a.reason)]_vars

\* a close called without a reason has just released a negative amount
\* (the loss exceeded the margin) while the other symbol holds a position
C2_Witness ==
    /\ last.op = "closePosition"
    /\ last.success
    /\ last.reason = NoReason
    /\ Head(transactions).reason = "MANUAL"
    /\ Lt(Head(transactions).pnl, Num(-20000))
    /\ Lt(balance, Num(30000))
    /\ \E s \in Symbols \ {last.symbol} : positions[s] # null

\* the triggers of the error kinds as listed in the error taxonomy
BadMargin(margin) == ~IsFinite(margin) \/ Le(margin, Num(0))

BadPrice(price) == ~IsFinite(price) \/ Le(price, Num(0))

BadLeverage(leverage) ==
    ~IsFinite(leverage) \/ Lt(leverage, Num(1)) \/ Gt(leverage, Num(50))

\* C3: openPosition reports the first failing precondition in the order
\* InvalidMargin, PriceUnavailable, InvalidLeverage, PositionAlreadyOpen,
\* InsufficientFunds, whatever later preconditions fail as well, and
\* succeeds when none fails.
C3_ErrorOrder ==
    [][last'.op = "openPosition" =>
        LET a == last'
            occupied == positions[a.symbol] # null
            insufficient == Gt(a.margin, balance)
        IN  a.error =
              IF BadMargin(a.margin) THEN InvalidMargin
              ELSE IF BadPrice(a.price) THEN PriceUnavailable
              ELSE IF BadLeverage(a.leverage) THEN InvalidLeverage
              ELSE IF occupied THEN PositionAlreadyOpen
              ELSE IF insufficient THEN InsufficientFunds
              ELSE NoError]_vars

\* an open with a leverage out of range, on an occupied slot, with a margin
\* above the balance, has just returned InvalidLeverage
C3_Witness ==
    /\ last.op = "openPosition"
    /\ last.error = InvalidLeverage
    /\ positions[last.symbol] # null
    /\ Gt(last.margin, balance)

IsIntegerIn1To50(x) == IsFinite(x) /\ x.d = 1 /\ x.n >= 1 /\ x.n <= 50

\* C4: openPosition fails with InvalidLeverage and changes no state whenever
\* the leverage is not a finite integer within 1..50 (margin and price being
\* valid), so that every stored position has an integer leverage in [1,50].
C4_IntegerLeverage ==
    [][last'.op = "openPosition" =>
        /\ (~BadMargin(last'.margin) /\ ~BadPrice(last'.price)
              /\ ~IsIntegerIn1To50(last'.leverage))
           => (/\ ~last'.success
               /\ last'.error = InvalidLeverage
               /\ UNCHANGED storeVars)
        /\ \A s \in Symbols :
              positions'[s] # null => IsIntegerIn1To50(positions'[s].leverage)
      ]_vars

\* C5: openPosition on an occupied slot (with valid margin, price and
\* leverage) fails with PositionAlreadyOpen and leaves balance, every slot
\* and the log unchanged; each symbol has at most one position open: in the
\* log its opens exceed its closes by one when its slot is occupied and by
\* none when it is empty.
C5_MutualExclusion ==
    [][/\ (/\ last'.op = "openPosition"
           /\ positions[last'.symbol] # null
           /\ ~BadMargin(last'.margin)
           /\ ~BadPrice(last'.price)
           /\ ~BadLeverage(last'.leverage))
          => (/\ ~last'.success
              /\ last'.error = PositionAlreadyOpen
              /\ UNCHANGED storeVars)
       /\ \A s \in Symbols :
            LET opens == Cardinality({i \in 1..Len(transactions') :
                            /\ transactions'[i].symbol = s
                            /\ transactions'[i].type # "CLOSE"})
                closes == Cardinality({i \in 1..Len(transactions') :
                            /\ transactions'[i].symbol = s
                            /\ transactions'[i].type = "CLOSE"})
            IN  opens - closes = IF positions'[s] # null THEN 1 ELSE 0
      ]_vars

\* a second open on the same symbol has just been refused while the first
\* position is still there
C5_Witness ==
    /\ last.op = "openPosition"
    /\ last.error = PositionAlreadyOpen
    /\ positions[last.symbol] # null
    /\ Len(transactions) = 1

\* C6: a call of openPosition or closePosition that returns success = false
\* leaves balance, every slot and the log as they were.
C6_FailureLeavesState ==
    [][(last'.op \in {"openPosition", "closePosition", "onClose"}
          /\ ~last'.success)
        => UNCHANGED storeVars]_vars

\* an open has just failed with InsufficientFunds next to an open position
C6_Witness ==
    /\ last.op = "openPosition"
    /\ ~last.success
    /\ last.error = InsufficientFunds
    /\ \E s \in Symbols : positions[s] # null

\* C7: closePosition fails with PriceUnavailable when the price is not
\* finite or <= 0, whether the slot is empty or not, and the position then
\* stays open; with a valid price it fails with NoOpenPosition when the slot
\* is empty.
C7_CloseErrors ==
    [][last'.op \in {"closePosition", "onClose"} =>
        /\ BadPrice(last'.price)
           => (/\ ~last'.success
               /\ last'.error = PriceUnavailable
               /\ positions' = positions)
        /\ (~BadPrice(last'.price) /\ positions[last'.symbol] = null)
           => (~last'.success /\ last'.error = NoOpenPosition)
        /\ (~BadPrice(last'.price) /\ positions[last'.symbol] # null)
           => last'.success]_vars

\* a close with a non-finite price has just failed on an open position
C7_Witness ==
    /\ last.op = "closePosition"
    /\ ~IsFinite(last.price)
    /\ last.error = PriceUnavailable
    /\ positions[last.symbol] # null

\* C8: with valid margin, price and leverage on an empty slot, openPosition
\* succeeds when margin equals balance (balance becomes 0) and fails with
\* InsufficientFunds when margin is greater than balance; a successful
\* openPosition never turns a non-negative balance negative.
C8_FundsBoundary ==
    [][last'.op = "openPosition" =>
        /\ (/\ ~BadMargin(last'.margin)
            /\ ~BadPrice(last'.price)
            /\ ~BadLeverage(last'.leverage)
            /\ positions[last'.symbol] = null)
           => /\ last'.margin = balance
                 => (last'.success /\ balance' = Num(0))
              /\ Gt(last'.margin, balance)
                 => (~last'.success /\ last'.error = InsufficientFunds)
              /\ Le(last'.margin, balance) => last'.success
        /\ (last'.success /\ Ge(balance, Num(0))) => Ge(balance', Num(0))
      ]_vars

\* an open with margin equal to the whole balance has just succeeded
C8_Witness ==
    /\ last.op = "openPosition"
    /\ last.success
    /\ last.margin = INITIAL_BALANCE
    /\ balance = Num(0)

\* the CLOSE transactions that the step has put on the log
NewCloses ==
    {i \in 1..(Len(transactions') - Len(transactions)) :
        transactions'[i].type = "CLOSE"}

CloseOps == {"closePosition", "onClose", "riskEffect"}

\* C9 as claimed: balance >= 0 in every state reached from the initial
\* account by operations whose preconditions pass.
C9_BalanceNeverNegative == Ge(balance, Num(0))

\* C9 as amended: a balance >= 0 stays >= 0 through every step, except
\* through a successful close, manual or issued by the evaluator, that
\* releases a negative amount (margin + pnl < 0: the loss exceeds the margin
\* of the position being closed); opens, updateRisk, resetAccount, failed
\* calls and closes releasing a non-negative amount never make it negative.
C9_NegativeOnlyByLossBeyondMargin ==
    [][(Ge(balance, Num(0)) /\ Lt(balance', Num(0))) =>
        /\ last'.op \in CloseOps
        /\ \E i \in NewCloses :
             LET t == transactions'[i]
                 p == positions[t.symbol]
             IN  /\ p # null
                 /\ positions'[t.symbol] = null
                 /\ t.pnl = PnL(p, t.price)
                 /\ Lt(Add(p.margin, t.pnl), Num(0))]_vars

\* the evaluator has just closed a position at a loss beyond its margin and
\* the balance is negative
C9_Witness ==
    /\ last.op = "riskEffect"
    /\ Len(last.closes) = 1
    /\ last.closes[1].success
    /\ Lt(balance, Num(0))
    /\ Lt(Head(transactions).pnl, Num(-20000))

\* the liquidation price of the spec
LiqPrice(position) ==
    IF position.side = "LONG"
    THEN Sub(position.entryPrice, Div(position.entryPrice, position.leverage))
    ELSE Add(position.entryPrice, Div(position.entryPrice, position.leverage))

\* the reason the spec gives for closing a LONG position at a price:
\* stop-loss before take-profit before liquidation
LongReason(position, price) ==
    IF position.stopLoss # undefined /\ Le(price, position.stopLoss)
    THEN "STOP_LOSS"
    ELSE IF position.takeProfit # undefined /\ Ge(price, position.takeProfit)
    THEN "TAKE_PROFIT"
    ELSE IF Le(price, LiqPrice(position)) THEN "LIQUIDATION"
    ELSE "NONE"

\* the close calls of the last evaluator pass for a symbol
ClosesOf(closes, symbol) ==
    SelectSeq(closes, LAMBDA c : c.symbol = symbol)

\* C10: in a pass of the evaluator, a LONG position seen with a price is
\* closed with the reason of the first condition that holds in the order
\* stop-loss (price <= stopLoss), take-profit (price >= takeProfit),
\* liquidation (price <= liq): one close call, at that price, with that
\* reason, which is the reason of the CLOSE transaction it logs; no close
\* call when none of the conditions holds.
C10_LongPrecedence ==
    [][last'.op = "riskEffect" =>
        \A s \in Symbols :
          LET p == rPositions[s]
              price == rPrices[s]
              calls == ClosesOf(last'.closes, s)
          IN  (p # null /\ p.side = "LONG" /\ price # undefined) =>
                LET reason == LongReason(p, price) IN
                IF reason = "NONE"
                THEN calls = <<>> /\ positions'[s] = positions[s]
                ELSE /\ Len(calls) = 1
                     /\ calls[1].reason = reason
                     /\ calls[1].price = price
                     /\ calls[1].success =>
                          /\ positions'[s] = null
                          /\ \E i \in NewCloses :
                               /\ transactions'[i].symbol = s
                               /\ transactions'[i].reason = reason
                               /\ transactions'[i].price = price
                          /\ \A i \in NewCloses :
                               transactions'[i].symbol = s =>
                                 transactions'[i].reason = reason]_vars

\* a LONG with stop-loss 95 and liquidation price 90 has just been closed at
\* 80, below both, with reason STOP_LOSS
C10_Witness ==
    /\ last.op = "riskEffect"
    /\ Len(last.closes) = 1
    /\ last.closes[1].success
    /\ last.closes[1].reason = "STOP_LOSS"
    /\ last.closes[1].price = Num(80)
    /\ rPositions[last.closes[1].symbol] # null
    /\ rPositions[last.closes[1].symbol].side = "LONG"
    /\ rPositions[last.closes[1].symbol].stopLoss = Num(95)
    /\ rPositions[last.closes[1].symbol].entryPrice = Num(100)
    /\ rPositions[last.closes[1].symbol].leverage = Num(10)
    /\ Head(transactions).reason = "STOP_LOSS"

\* the reason the spec gives for closing a SHORT position at a price:
\* stop-loss before take-profit before liquidation, mirrored
ShortReason(position, price) ==
    IF position.stopLoss # undefined /\ Ge(price, position.stopLoss)
    THEN "STOP_LOSS"
    ELSE IF position.takeProfit # undefined /\ Le(price, position.takeProfit)
    THEN "TAKE_PROFIT"
    ELSE IF Ge(price, LiqPrice(position)) THEN "LIQUIDATION"
    ELSE "NONE"

\* C11: in a pass of the evaluator, a SHORT position seen with a price is
\* closed with the reason of the first condition that holds in the order
\* stop-loss (price >= stopLoss), take-profit (price <= takeProfit),
\* liquidation (price >= liq = entryPrice + entryPrice/leverage): one close
\* call, at that price, with that reason, logged once; no close call when
\* none of the conditions holds.
C11_ShortPrecedence ==
    [][last'.op = "riskEffect" =>
        \A s \in Symbols :
          LET p == rPositions[s]
              price == rPrices[s]
              calls == ClosesOf(last'.closes, s)
          IN  (p # null /\ p.side = "SHORT" /\ price # undefined) =>
                LET reason == ShortReason(p, price) IN
                IF reason = "NONE"
                THEN calls = <<>> /\ positions'[s] = positions[s]
                ELSE /\ Len(calls) = 1
                     /\ calls[1].reason = reason
                     /\ calls[1].price = price
                     /\ calls[1].success =>
                          /\ positions'[s] = null
                          /\ Cardinality({i \in NewCloses :
                                 transactions'[i].symbol = s}) = 1
                          /\ \A i \in NewCloses :
                               transactions'[i].symbol = s =>
                                 /\ transactions'[i].reason = reason
                                 /\ transactions'[i].price = price]_vars

\* a SHORT with stop-loss 105, take-profit 110 and liquidation price 110 has
\* just been closed at 110, where all three conditions hold, with reason
\* STOP_LOSS
C11_Witness ==
    /\ last.op = "riskEffect"
    /\ Len(last.closes) = 1
    /\ last.closes[1].success
    /\ last.closes[1].reason = "STOP_LOSS"
    /\ last.closes[1].price = Num(110)
    /\ rPositions[last.closes[1].symbol] # null
    /\ rPositions[last.closes[1].symbol].side = "SHORT"
    /\ rPositions[last.closes[1].symbol].stopLoss = Num(105)
    /\ rPositions[last.closes[1].symbol].takeProfit = Num(110)
    /\ getLiquidationPrice(rPositions[last.closes[1].symbol]) = Num(110)
    /\ Len(transactions) = 2
    /\ Head(transactions).reason = "STOP_LOSS"

\* C12: a LONG position without stop-loss and take-profit, seen by the
\* evaluator with a price, is closed with reason LIQUIDATION when the price
\* is at or below liq = entryPrice - entryPrice/leverage, the price equal to
\* liq included, and gets no close call and stays as it is when the price is
\* strictly above liq.
C12_LiquidationInclusive ==
    [][last'.op = "riskEffect" =>
        \A s \in Symbols :
          LET p == rPositions[s]
              price == rPrices[s]
              calls == ClosesOf(last'.closes, s)
          IN  (/\ p # null
               /\ p.side = "LONG"
               /\ p.stopLoss = undefined
               /\ p.takeProfit = undefined
               /\ price # undefined) =>
                LET liq == Sub(p.entryPrice, Div(p.entryPrice, p.leverage)) IN
                /\ Gt(price, liq) =>
                      calls = <<>> /\ positions'[s] = positions[s]
                /\ Le(price, liq) =>
                      /\ Len(calls) = 1
                      /\ calls[1].reason = "LIQUIDATION"
                      /\ calls[1].price = price
                      /\ calls[1].success =>
                           /\ positions'[s] = null
                           /\ Head(transactions').symbol = s
                           /\ Head(transactions').reason = "LIQUIDATION"]_vars

\* a LONG opened at 100 with leverage 10 and no stop-loss or take-profit has
\* just been closed by a tick at exactly 90 with reason LIQUIDATION
C12_Witness ==
    /\ last.op = "riskEffect"
    /\ Len(last.closes) = 1
    /\ last.closes[1].success
    /\ last.closes[1].reason = "LIQUIDATION"
    /\ last.closes[1].price = Num(90)
    /\ rPositions[last.closes[1].symbol] # null
    /\ rPositions[last.closes[1].symbol].side = "LONG"
    /\ rPositions[last.closes[1].symbol].entryPrice = Num(100)
    /\ rPositions[last.closes[1].symbol].leverage = Num(10)
    /\ rPositions[last.closes[1].symbol].stopLoss = undefined
    /\ rPositions[last.closes[1].symbol].takeProfit = undefined
    /\ positions[last.closes[1].symbol] = null
    /\ Head(transactions).reason = "LIQUIDATION"
    /\ Head(transactions).price = Num(90)

\* the close calls of an evaluator pass that succeeded
Succeeded(closes) == SelectSeq(closes, LAMBDA c : c.success)

\* every CLOSE entry of the log has an older entry of the same symbol, and
\* the nearest such entry is an open: no open is closed twice
EachCloseHasItsOpen(log) ==
    \A i \in 1..Len(log) :
        log[i].type = "CLOSE" =>
            \E j \in (i + 1)..Len(log) :
                /\ log[j].symbol = log[i].symbol
                /\ log[j].type # "CLOSE"
                /\ \A k \in (i + 1)..(j - 1) : log[k].symbol # log[i].symbol

\* C13: when the evaluator calls closePosition for a position that has been
\* closed since the evaluator read it, the call fails with NoOpenPosition
\* and changes nothing: the slot stays null, the log grows only by the calls
\* that succeeded, and a pass whose calls all fail leaves balance, positions
\* and log as they were; in the log every CLOSE follows an open of its
\* symbol that no other CLOSE has taken.
C13_StaleCloseIsHarmless ==
    [][last'.op = "riskEffect" =>
        /\ \A k \in 1..Len(last'.closes) :
              LET c == last'.closes[k] IN
              positions[c.symbol] = null =>
                /\ ~c.success
                /\ c.error = NoOpenPosition
                /\ positions'[c.symbol] = null
        /\ Len(transactions') =
              Len(transactions) + Len(Succeeded(last'.closes))
        /\ Succeeded(last'.closes) = <<>> => UNCHANGED storeVars
        /\ EachCloseHasItsOpen(transactions')]_vars

\* the evaluator has just tried to close a position that the close button
\* had closed after the render: the call failed with NoOpenPosition and the
\* newest entry of the log is still the manual close
C13_Witness ==
    /\ last.op = "riskEffect"
    /\ Len(last.closes) = 1
    /\ ~last.closes[1].success
    /\ last.closes[1].error = NoOpenPosition
    /\ rPositions[last.closes[1].symbol] # null
    /\ positions[last.closes[1].symbol] = null
    /\ Head(transactions).type = "CLOSE"
    /\ Head(transactions).reason = "MANUAL"
    /\ Head(transactions).symbol = last.closes[1].symbol

\* the reason the spec gives for closing a position at a price, "NONE" when
\* no condition holds
SpecReason(position, price) ==
    IF position.side = "LONG" THEN LongReason(position, price)
    ELSE ShortReason(position, price)

\* the symbols whose position and price, as seen by the evaluator, satisfy a
\* trigger condition
Triggered ==
    {s \in Symbols :
        /\ rPositions[s] # null
        /\ rPrices[s] # undefined
        /\ SpecReason(rPositions[s], rPrices[s]) # "NONE"}

\* margin + pnl summed over the positions of the store that a pass closes
RECURSIVE ReleasedBy(_)
ReleasedBy(closes) ==
    IF closes = <<>> THEN Num(0)
    ELSE LET c == Head(closes)
             p == positions[c.symbol]
         IN  Add(Add(p.margin, PnL(p, c.price)), ReleasedBy(Tail(closes)))

\* C14: one pass of the evaluator issues a close call for every symbol whose
\* position and price satisfy a trigger condition, each with the reason and
\* the price of its own symbol, whatever happened to the symbols before it
\* in the pass; every position still open in the store is closed by it and
\* logged with that reason and price, and balance receives margin + pnl of
\* each.
C14_IndependentSymbols ==
    [][last'.op = "riskEffect" =>
        /\ {last'.closes[k].symbol : k \in 1..Len(last'.closes)} = Triggered
        /\ Len(last'.closes) = Cardinality(Triggered)
        /\ \A k \in 1..Len(last'.closes) :
              LET c == last'.closes[k]
                  s == c.symbol
              IN  /\ c.reason = SpecReason(rPositions[s], rPrices[s])
                  /\ c.price = rPrices[s]
                  /\ c.success = (positions[s] # null)
                  /\ c.success =>
                        /\ positions'[s] = null
                        /\ \E i \in NewCloses :
                              /\ transactions'[i].symbol = s
                              /\ transactions'[i].reason = c.reason
                              /\ transactions'[i].price = c.price
        /\ \A s \in Symbols \ Triggered : positions'[s] = positions[s]
        /\ Len(transactions') =
              Len(transactions) + Len(Succeeded(last'.closes))
        /\ balance' = Add(balance, ReleasedBy(Succeeded(last'.closes)))]_vars

\* one pass has just closed the LONG on BTCUSDT at 80 and the SHORT on
\* ETHUSDT at 120, with different reasons
C14_Witness ==
    /\ last.op = "riskEffect"
    /\ Len(last.closes) = 2
    /\ last.closes[1].success
    /\ last.closes[2].success
    /\ last.closes[1].symbol = "BTCUSDT"
    /\ last.closes[2].symbol = "ETHUSDT"
    /\ last.closes[1].price = Num(80)
    /\ last.closes[2].price = Num(120)
    /\ last.closes[1].reason # last.closes[2].reason
    /\ positions = createInitialPositions
    /\ Len(transactions) = 4
    /\ transactions[1].symbol = "ETHUSDT"
    /\ transactions[2].symbol = "BTCUSDT"

\* the log after the step is the log before it with n entries put in front
Prepended(n) ==
    /\ Len(transactions') = Len(transactions) + n
    /\ SubSeq(transactions', n + 1, Len(transactions')) = transactions

\* C15: a successful openPosition or closePosition puts exactly one entry
\* at index 0 of the log (an OPEN_LONG / OPEN_SHORT or a CLOSE of its
\* symbol) and keeps every older entry, content and order; a pass of the
\* evaluator does so once per close that succeeds; failed calls, updateRisk,
\* price messages and renders leave the log as it is; only resetAccount
\* removes entries.
C15_AppendOnlyLog ==
    [][/\ last'.op \in {"openPosition", "closePosition", "onClose"} =>
            IF last'.success
            THEN /\ Prepended(1)
                 /\ Head(transactions').symbol = last'.symbol
                 /\ (Head(transactions').type = "CLOSE")
                       = (last'.op # "openPosition")
            ELSE transactions' = transactions
       /\ last'.op = "riskEffect" =>
            Prepended(Len(Succeeded(last'.closes)))
       /\ last'.op \in {"updateRisk", "onmessage", "render"} =>
            transactions' = transactions
       /\ last'.op = "resetAccount" => transactions' = <<>>
       /\ last'.op # "resetAccount" =>
            \E n \in 0..Len(transactions') : Prepended(n)]_vars

\* a close has just been logged in front of two older entries, the oldest
\* being the open of another symbol
C15_Witness ==
    /\ last.op \in {"closePosition", "onClose"}
    /\ last.success
    /\ Len(transactions) = 3
    /\ transactions[1].type = "CLOSE"
    /\ transactions[1].symbol = last.symbol
    /\ transactions[2].type # "CLOSE"
    /\ transactions[3].type # "CLOSE"
    /\ transactions[3].symbol # transactions[1].symbol

\* the same position held in the other direction
Opposite(position) ==
    [position EXCEPT !.side = IF position.side = "LONG" THEN "SHORT"
                               ELSE "LONG"]

\* C16: calculatePnl returns (price - entryPrice) * quantity for a LONG and
\* (entryPrice - price) * quantity for a SHORT; the result for the same
\* entry price and quantity held in the other direction is its negation, and
\* the result at price = entryPrice is 0 on both sides.
C16_PnlFormula ==
    last.op = "calculatePnl" =>
        LET p == last.position
            price == last.price
        IN  /\ p.side = "LONG" =>
                  last.result = Mul(Sub(price, p.entryPrice), p.quantity)
            /\ p.side = "SHORT" =>
                  last.result = Mul(Sub(p.entryPrice, price), p.quantity)
            /\ calculatePnl(Opposite(p), price) = Sub(Num(0), last.result)
            /\ price = p.entryPrice => last.result = Num(0)

\* calculatePnl has just returned -10 for a SHORT of quantity 1 opened at
\* 100 and priced at 110, where the LONG gives 10
C16_Witness ==
    /\ last.op = "calculatePnl"
    /\ last.position.side = "SHORT"
    /\ last.position.entryPrice = Num(100)
    /\ last.position.quantity = Num(1)
    /\ last.price = Num(110)
    /\ last.result = Num(-10)
    /\ calculatePnl(Opposite(last.position), last.price) = Num(10)

\* C17: when a successful openPosition at price p is immediately followed by
\* a successful closePosition of the same symbol at the same price p, the
\* close records pnl = 0, leaves the slot null and returns balance to
\* exactly the value it had before the open.
C17_FlatRoundTrip ==
    [][(/\ last.op = "openPosition"
        /\ last.success
        /\ last'.op = "closePosition"
        /\ last'.success
        /\ last'.symbol = last.symbol
        /\ last'.price = last.price)
       => (/\ Head(transactions').pnl = Num(0)
           /\ positions'[last.symbol] = null
           /\ balance' = last.balanceBefore)]_vars

\* C18: resetAccount, from whatever state, yields balance = 50,000, every
\* slot null and an empty log, which is the state of the store at first
\* run; applied to that state again it yields the same state.
C18_ResetAccount ==
    [][last'.op = "resetAccount" =>
        /\ balance' = Num(50000)
        /\ \A s \in Symbols : positions'[s] = null
        /\ transactions' = <<>>
        /\ balance' = INITIAL_BALANCE
        /\ positions' = createInitialPositions
        /\ resetAccount(Store') = Store'
        /\ resetAccount(resetAccount(Store)) = resetAccount(Store)]_vars

\* the account has just been reset while a position was open, money was
\* reserved and the log was not empty: the render still shows the position
C18_Witness ==
    /\ last.op = "resetAccount"
    /\ \E s \in Symbols : rPositions[s] # null /\ positions[s] = null
    /\ balance = INITIAL_BALANCE
    /\ transactions = <<>>

\* C19: updateRisk changes nothing when the symbol has no open position;
\* when it has one, the position's stopLoss and takeProfit become the given
\* values, undefined when omitted, whatever the side and the entry price,
\* and balance, the log, every other slot and the position's symbol, side,
\* quantity, entryPrice, leverage and margin stay as they were.
C19_UpdateRisk ==
    [][last'.op = "updateRisk" =>
        LET s == last'.symbol
            p == positions[s]
            q == positions'[s]
        IN  /\ balance' = balance
            /\ transactions' = transactions
            /\ OtherSlotsUnchanged(s)
            /\ p = null => q = null
            /\ p # null =>
                  /\ q # null
                  /\ q.stopLoss = last'.stopLoss
                  /\ q.takeProfit = last'.takeProfit
                  /\ q.symbol = p.symbol
                  /\ q.side = p.side
                  /\ q.quantity = p.quantity
                  /\ q.entryPrice = p.entryPrice
                  /\ q.leverage = p.leverage
                  /\ q.margin = p.margin]_vars

\* updateRisk has just given a LONG opened at 100 a stop-loss above the
\* entry price and, by omission, cleared the take-profit it was opened
\* with, while the other symbol holds a position
C19_Witness ==
    /\ last.op = "updateRisk"
    /\ positions[last.symbol] # null
    /\ positions[last.symbol].side = "LONG"
    /\ positions[last.symbol].entryPrice = Num(100)
    /\ last.stopLoss = Num(105)
    /\ last.takeProfit = undefined
    /\ positions[last.symbol].stopLoss = Num(105)
    /\ positions[last.symbol].takeProfit = undefined
    /\ \E s \in Symbols \ {last.symbol} : positions[s] # null

\* C20: every open position has quantity = margin * leverage / entryPrice
\* (margin 1000, leverage 10, entry price 50000: quantity 0.2), and as long
\* as a slot stays occupied no step (updateRisk, operations on other
\* symbols, failed calls, price messages, evaluator passes) changes the
\* position's quantity, margin, leverage, entryPrice or side.
C20_QuantityFixed ==
    [][\A s \in Symbols :
         LET p == positions[s]
             q == positions'[s]
         IN  /\ q # null =>
                   /\ q.quantity = Div(Mul(q.margin, q.leverage), q.entryPrice)
                   /\ (/\ q.margin = Num(1000)
                       /\ q.leverage = Num(10)
                       /\ q.entryPrice = Num(50000))
                      => q.quantity = Div(Num(1), Num(5))
             /\ (p # null /\ q # null) =>
                   /\ q.quantity = p.quantity
                   /\ q.margin = p.margin
                   /\ q.leverage = p.leverage
                   /\ q.entryPrice = p.entryPrice
                   /\ q.side = p.side]_vars

\* a position of quantity 0.2 (margin 1000, leverage 10, entry price 50000)
\* whose stop-loss has been changed since it was opened is still there after
\* an evaluator pass that closed the position of the other symbol
C20_Witness ==
    /\ last.op = "riskEffect"
    /\ Len(last.closes) = 1
    /\ last.closes[1].success
    /\ \E s \in Symbols \ {last.closes[1].symbol} :
          /\ positions[s] # null
          /\ positions[s].margin = Num(1000)
          /\ positions[s].leverage = Num(10)
          /\ positions[s].entryPrice = Num(50000)
          /\ positions[s].quantity = Div(Num(1), Num(5))
          /\ positions[s].stopLoss = Num(45500)
          /\ \E i \in 1..Len(transactions) :
                /\ transactions[i].symbol = s
                /\ transactions[i].type = "OPEN_LONG"

\* C21: a successful close, manual or issued by the evaluator, at exactly
\* the liquidation price of the position (entryPrice - entryPrice/leverage
\* for a LONG, entryPrice + entryPrice/leverage for a SHORT) records
\* pnl = -margin, releases 0 and leaves balance as it was.
C21_LiquidationExhaustsMargin ==
    [][last'.op \in CloseOps =>
        \A i \in NewCloses :
          LET t == transactions'[i]
              p == positions[t.symbol]
          IN  (p # null /\ t.price = LiqPrice(p)) =>
                /\ t.pnl = Sub(Num(0), p.margin)
                /\ Add(p.margin, t.pnl) = Num(0)
                /\ balance' = balance]_vars

\* the entries that the step has put on the log for a symbol
NewEntriesOf(symbol) ==
    {i \in 1..(Len(transactions') - Len(transactions)) :
        transactions'[i].symbol = symbol}

\* C22: in a pass of the evaluator a symbol for which the evaluator sees no
\* price or no position gets no close call, and its slot and the log are
\* left as they were for it, whatever the stop-loss, take-profit or
\* liquidation level of its position; a symbol whose slot in the store is
\* empty stays empty and gets no log entry; a pass in which no symbol has
\* both a price and a position changes nothing.
C22_NeedsPriceAndPosition ==
    [][last'.op = "riskEffect" =>
        /\ \A s \in Symbols :
              /\ (rPrices[s] = undefined \/ rPositions[s] = null) =>
                    /\ ClosesOf(last'.closes, s) = <<>>
                    /\ positions'[s] = positions[s]
                    /\ NewEntriesOf(s) = {}
              /\ positions[s] = null =>
                    /\ positions'[s] = null
                    /\ NewEntriesOf(s) = {}
        /\ (\A s \in Symbols :
                rPrices[s] = undefined \/ rPositions[s] = null)
           => (last'.closes = <<>> /\ UNCHANGED storeVars)]_vars

\* a pass has just made no close call for a LONG opened at 100 with a
\* stop-loss at 95 and a take-profit at 90, which every price above 90 or
\* below 95 would hit: the symbol has no price yet
C22_Witness ==
    /\ last.op = "riskEffect"
    /\ last.closes = <<>>
    /\ \E s \in Symbols :
          /\ rPositions[s] # null
          /\ positions[s] = rPositions[s]
          /\ rPositions[s].side = "LONG"
          /\ rPositions[s].stopLoss = Num(95)
          /\ rPositions[s].takeProfit = Num(90)
          /\ rPrices[s] = undefined

\* C23: every CLOSE transaction that a pass of the evaluator logs has the
\* price of the tick the evaluator saw for its symbol, whatever the
\* stop-loss, take-profit or liquidation level that was crossed, and its pnl
\* is PnL(position, that price) for the position it closed; balance
\* receives margin + that pnl.
C23_FillAtTickPrice ==
    [][last'.op = "riskEffect" =>
        \A i \in NewCloses :
          LET t == transactions'[i]
              p == positions[t.symbol]
          IN  /\ p # null
              /\ t.reason \in {"STOP_LOSS", "TAKE_PROFIT", "LIQUIDATION"}
              /\ t.price = rPrices[t.symbol]
              /\ t.pnl = PnL(p, rPrices[t.symbol])
              /\ t.quantity = p.quantity
              /\ Len(last'.closes) = 1 =>
                    balance' = Add(balance, Add(p.margin, t.pnl))]_vars

\* a LONG of quantity 2000 opened at 100 with a stop-loss at 95 has just
\* been closed by a tick at 80: the log has price 80 and pnl -40000, not the
\* stop-loss 95 nor the liquidation price 90
C23_Witness ==
    /\ last.op = "riskEffect"
    /\ Len(last.closes) = 1
    /\ last.closes[1].success
    /\ Head(transactions).type = "CLOSE"
    /\ Head(transactions).reason = "STOP_LOSS"
    /\ Head(transactions).price = Num(80)
    /\ Head(transactions).quantity = Num(2000)
    /\ Head(transactions).pnl = Num(-40000)
    /\ rPositions[Head(transactions).symbol].stopLoss = Num(95)
    /\ rPrices[Head(transactions).symbol] = Num(80)

\* the sum of two numbers as a real number, without rounding
ExactAdd(x, y) == Rat(x.n * y.d + y.n * x.d, x.d * y.d)

\* x + y, as a real number when exact and as the program adds otherwise
Plus(exact, x, y) == IF exact THEN ExactAdd(x, y) ELSE Add(x, y)

RECURSIVE OpenMargins(_, _, _)
\* acc plus the margins of the open positions of the symbols from i on
OpenMargins(i, acc, exact) ==
    IF i > Len(SUPPORTED_SYMBOLS) THEN acc
    ELSE LET p == positions[SUPPORTED_SYMBOLS[i]]
         IN  OpenMargins(i + 1,
                         IF p = null THEN acc ELSE Plus(exact, acc, p.margin),
                         exact)

RECURSIVE ClosedPnl(_, _, _)
\* acc plus the pnl of the CLOSE entries of the log from the oldest (the
\* last) to entry i
ClosedPnl(i, acc, exact) ==
    IF i < 1 THEN acc
    ELSE LET t == transactions[i]
         IN  ClosedPnl(i - 1,
                       IF t.type = "CLOSE" THEN Plus(exact, acc, t.pnl) ELSE acc,
                       exact)

\* C24: in every reachable state balance plus the margins of the open
\* positions equals 50,000 plus the pnl of the CLOSE transactions of the
\* log. The equality is accepted when it holds for the sums taken as real
\* numbers or for the sums as the program's own additions would give them.
C24_Conservation ==
    \/ OpenMargins(1, balance, TRUE)
          = ClosedPnl(Len(transactions), INITIAL_BALANCE, TRUE)
    \/ OpenMargins(1, balance, FALSE)
          = ClosedPnl(Len(transactions), INITIAL_BALANCE, FALSE)

\* the transactions of a symbol, newest first
SymbolLog(symbol) == SelectSeq(transactions, LAMBDA t : t.symbol = symbol)

IsOpen(t) == t.type \in {"OPEN_LONG", "OPEN_SHORT"}

\* C25: for every symbol, its transactions from the oldest to the newest
\* alternate OPEN_*, CLOSE, OPEN_*, ... starting with an OPEN_*; its slot
\* holds a position exactly when its newest transaction is an OPEN_*, and
\* then entryPrice, quantity, leverage and margin of the position are
\* price, quantity, leverage and margin of that transaction; every CLOSE
\* has the quantity of the OPEN_* just before it.
C25_LogMatchesSlots ==
    \A symbol \in Symbols :
      LET log == SymbolLog(symbol)
          n == Len(log)
      IN  /\ \A k \in 1..n :
                IF (n - k) % 2 = 0 THEN IsOpen(log[k])
                ELSE /\ log[k].type = "CLOSE"
                     /\ log[k].quantity = log[k + 1].quantity
          /\ positions[symbol] # null <=> (n > 0 /\ IsOpen(log[1]))
          /\ positions[symbol] # null =>
                /\ positions[symbol].entryPrice = log[1].price
                /\ positions[symbol].quantity = log[1].quantity
                /\ positions[symbol].leverage = log[1].leverage
                /\ positions[symbol].margin = log[1].margin

\* a symbol opened with margin 1 at 1x, closed, and opened again with
\* margin 1/2 at 50x: three entries, the CLOSE with the first quantity and
\* the slot with the second
C25_Witness ==
    \E symbol \in Symbols :
      LET log == SymbolLog(symbol)
      IN  /\ Len(log) = 3
          /\ log[3].margin = Num(1) /\ log[3].leverage = Num(1)
          /\ log[2].type = "CLOSE"
          /\ log[2].quantity = log[3].quantity
          /\ log[1].margin = Rat(1, 2) /\ log[1].leverage = Num(50)
          /\ log[1].quantity # log[3].quantity
          /\ positions[symbol] # null
          /\ positions[symbol].quantity = log[1].quantity

\* the condition of a closing reason on a position at a price: for a LONG,
\* STOP_LOSS is price <= stopLoss, TAKE_PROFIT is price >= takeProfit and
\* LIQUIDATION is price <= liq; for a SHORT the comparisons are mirrored
ReasonHolds(position, price, reason) ==
    LET long == position.side = "LONG" IN
    IF reason = "STOP_LOSS"
    THEN /\ position.stopLoss # undefined
         /\ IF long THEN Le(price, position.stopLoss)
            ELSE Ge(price, position.stopLoss)
    ELSE IF reason = "TAKE_PROFIT"
    THEN /\ position.takeProfit # undefined
         /\ IF long THEN Ge(price, position.takeProfit)
            ELSE Le(price, position.takeProfit)
    ELSE /\ reason = "LIQUIDATION"
         /\ IF long THEN Le(price, LiqPrice(position))
            ELSE Ge(price, LiqPrice(position))

\* C26: every CLOSE transaction logged by a pass of the evaluator closes a
\* position of the store whose side, stop-loss, take-profit and liquidation
\* price, as they are in the store when the pass runs, satisfy the condition
\* of the logged reason at the logged price, also when a command has changed
\* the store since the evaluator's snapshot was taken.
C26_CloseJustifiedByLivePosition ==
    [][last'.op = "riskEffect" =>
        \A i \in NewCloses :
          LET t == transactions'[i]
              p == positions[t.symbol]
          IN  /\ p # null
              /\ ReasonHolds(p, t.price, t.reason)]_vars

\* a trigger condition of the position of a symbol holds at its current price
TriggerHolds(symbol) ==
    /\ positions[symbol] # null
    /\ prices[symbol] # undefined
    /\ SpecReason(positions[symbol], prices[symbol]) # "NONE"

\* C27: under fair scheduling of the renders and of the evaluator, whenever
\* a symbol has an open position and its current price satisfies the
\* stop-loss, take-profit or liquidation condition of that position, the
\* position is eventually closed, or the price or the risk fields change so
\* that no condition holds any more.
C27_TriggersActedOn ==
    \A symbol \in Symbols :
        TriggerHolds(symbol) ~>
            (positions[symbol] = null \/ ~TriggerHolds(symbol))

\* C28: every CLOSE transaction with reason LIQUIDATION that a pass of the
\* evaluator logs has pnl <= -margin of the position it closed, so that the
\* close releases nothing: balance is unchanged or lower after it.
C28_LiquidationReturnsNothing ==
    [][last'.op = "riskEffect" =>
        \A i \in NewCloses :
          LET t == transactions'[i]
              p == positions[t.symbol]
          IN  t.reason = "LIQUIDATION" =>
                /\ p # null
                /\ Le(t.pnl, Sub(Num(0), p.margin))
                /\ Le(balance', balance)]_vars

\* a stop-loss on the wrong side of the entry price: at or above it for a
\* LONG, at or below it for a SHORT
WrongSideStop(position) ==
    /\ position.stopLoss # undefined
    /\ IF position.side = "LONG"
       THEN Ge(position.stopLoss, position.entryPrice)
       ELSE Le(position.stopLoss, position.entryPrice)

\* the pass of the evaluator that follows the render of a successful
\* openPosition closes the position just opened for the symbol, which has a
\* wrong-side stop-loss and was opened at the symbol's current price
ClosesWrongSide(symbol) ==
    /\ last.op = "render"
    /\ "balanceBefore" \in DOMAIN last
    /\ last'.op = "riskEffect"
    /\ transactions # <<>>
    /\ IsOpen(Head(transactions))
    /\ Head(transactions).symbol = symbol
    /\ positions[symbol] # null
    /\ rPositions[symbol] = positions[symbol]
    /\ rPrices[symbol] = positions[symbol].entryPrice
    /\ WrongSideStop(positions[symbol])

\* C29: a position opened at the current price p with a stop-loss on the
\* wrong side is closed by the next pass of the evaluator, the price being
\* still p: the slot is empty again, the log has the OPEN_* entry and on top
\* of it one CLOSE entry with reason STOP_LOSS, price p and pnl 0, and
\* balance is what it was before the position was opened.
C29_WrongSideStopClosesAtOnce ==
    [][\A symbol \in Symbols :
        ClosesWrongSide(symbol) =>
          /\ positions'[symbol] = null
          /\ Len(transactions') = Len(transactions) + 1
          /\ Tail(transactions') = transactions
          /\ Head(transactions').type = "CLOSE"
          /\ Head(transactions').symbol = symbol
          /\ Head(transactions').reason = "STOP_LOSS"
          /\ Head(transactions').price = positions[symbol].entryPrice
          /\ Head(transactions').pnl = Num(0)
          /\ balance' = last.balanceBefore]_vars

\* a LONG position with leverage 1 and neither stop-loss nor take-profit
Unleveraged(position) ==
    /\ position # null
    /\ position.side = "LONG"
    /\ position.leverage = Num(1)
    /\ position.stopLoss = undefined
    /\ position.takeProfit = undefined

\* C30: a pass of the evaluator never closes a LONG position with leverage 1
\* and neither stop-loss nor take-profit, whatever price the feed has sent,
\* positive, zero or negative: the position is still in its slot after the
\* pass and the log has no new entry for its symbol.
C30_UnleveragedLongNeverClosed ==
    [][last'.op = "riskEffect" =>
        \A symbol \in Symbols :
          Unleveraged(positions[symbol]) =>
            /\ positions'[symbol] = positions[symbol]
            /\ NewEntriesOf(symbol) = {}]_vars

====
